---- MODULE Spec2Model ----
(***************************************************************************)
(* Model of the tool registry (src/tool_registry.py) and of the execution  *)
(* engine's alarm handling (src/code_executor.py).                          *)
(*                                                                         *)
(* Names are sequences of one-character strings so that split('_', 1) and  *)
(* replace('_', '-') are computed as the code computes them.               *)
(* asyncio tasks run one at a time and switch only at an await that really *)
(* suspends: every action below is one such atomic section.                *)
(***************************************************************************)
EXTENDS Integers, Sequences, FiniteSets, TLC

VARIABLES
    mcp_toolsets,     \* ToolRegistry._mcp_toolsets: provider names in insertion order
    tools_cache,      \* ToolRegistry._tools_cache: tool records in insertion order
    sessions_cache,   \* ToolRegistry._sessions_cache: public name -> session
    catalog,          \* what each provider's listTools answers
    task,             \* per asyncio task: the registry coroutine it runs and where it is
    opens,            \* per provider: create_session requests received
    lists,            \* per provider: listTools requests received
    nops,             \* registry operations started so far
    faults,           \* provider failures of create_session / list_tools so far
    began,            \* history: _mcp_toolsets when the first _ensure_tools_loaded call began
    ex,               \* the execution engine: position in execute_code, alarm, result
    sch               \* the schema fixer: its input and what it returned for it

vars == <<mcp_toolsets, tools_cache, sessions_cache, catalog, task, opens, lists,
          nops, faults, began, ex, sch>>

regVars == <<mcp_toolsets, tools_cache, sessions_cache, catalog, task, opens, lists,
             nops, faults, began>>

----------------------------------------------------------------------------
(* Bounds *)

NumTasks == 2
MaxOps == 2
MaxFaults == 1
MaxContent == 2

Tasks == 1..NumTasks

----------------------------------------------------------------------------
(* Names *)

U == "_"
H == "-"

\* '_' in s
HasUnderscore(s) == \E i \in 1..Len(s) : s[i] = U

\* index of the first underscore of s (s.split('_', 1))
FirstUnderscore(s) == CHOOSE i \in 1..Len(s) : s[i] = U /\ \A j \in 1..(i-1) : s[j] # U

\* parts[0] of name.split('_', 1)
SplitPrefix(s) == IF HasUnderscore(s) THEN SubSeq(s, 1, FirstUnderscore(s) - 1) ELSE s

\* parts[1] of name.split('_', 1), '' when there is no second part
SplitRest(s) == IF HasUnderscore(s) THEN SubSeq(s, FirstUnderscore(s) + 1, Len(s)) ELSE <<>>

\* rest.replace('_', '-')
ReplaceUnderscores(s) == [i \in 1..Len(s) |-> IF s[i] = U THEN H ELSE s[i]]

\* f"{prefix}_{rest.replace('_', '-')}"
NameWithHyphens(name) == SplitPrefix(name) \o <<U>> \o ReplaceUnderscores(SplitRest(name))

\* the two nested conditions under which the fallback name is tried at all
HasFallback(name) == HasUnderscore(name) /\ HasUnderscore(SplitRest(name))

----------------------------------------------------------------------------
(* Providers *)

ProviderP == <<"p">>
ProviderPA == <<"p", "_", "a">>
Providers == {ProviderP, ProviderPA}

\* tool_name_prefix=f'{server_name}_'
ToolNamePrefix(p) == p \o <<U>>

RawAB == <<"a", H, "b">>
RawA_B == <<"a", U, "b">>
RawB == <<"b">>

\* the tool lists a provider may serve
Catalogs(p) ==
    IF p = ProviderP THEN { <<RawAB>>, <<RawAB, RawA_B>> }
    ELSE { <<>>, <<RawB, RawAB>> }

\* one entry of tools_response.tools
RawTool(p, n) == [name |-> n, description |-> <<"desc", p, n>>, inputSchema |-> <<"schema", p, n>>]

\* the session the provider's session manager hands out (one per provider, reused)
Session(p) == [provider |-> p]

NoSession == [provider |-> <<>>]

----------------------------------------------------------------------------
(* Python dicts: insertion-ordered, assignment to an existing key keeps its place *)

DictKeys(d) == [i \in 1..Len(d) |-> d[i].name]

InCache(d, k) == \E i \in 1..Len(d) : d[i].name = k

Lookup(d, k) == d[CHOOSE i \in 1..Len(d) : d[i].name = k]

DictPut(d, rec) ==
    IF InCache(d, rec.name)
    THEN [i \in 1..Len(d) |-> IF d[i].name = rec.name THEN rec ELSE d[i]]
    ELSE Append(d, rec)

SessionPut(sc, k, s) == [n \in (DOMAIN sc) \cup {k} |-> IF n = k THEN s ELSE sc[n]]

InToolsets(ts, p) == \E i \in 1..Len(ts) : ts[i] = p

\* self._mcp_toolsets[name] = toolset
ToolsetPut(ts, p) == IF InToolsets(ts, p) THEN ts ELSE Append(ts, p)

----------------------------------------------------------------------------
(* Provider responses to callTool *)

TextResultJson == "{\"operation\": \"add\", \"result\": 8}"
TextPlain == "Output: /tmp/out.pdf"
TextJsonNoResult == "{\"value\": 8}"
TextJsonString == "\"result\""

\* json.loads(text): does it parse, is the value a dict, has the dict a "result"
\* field, and that field
JsonLoads(text) ==
    IF text = TextResultJson
    THEN [valid |-> TRUE, is_dict |-> TRUE, hasResult |-> TRUE, result |-> "8"]
    ELSE IF text = TextJsonNoResult
         THEN [valid |-> TRUE, is_dict |-> TRUE, hasResult |-> FALSE, result |-> ""]
         ELSE IF text = TextJsonString
              THEN [valid |-> TRUE, is_dict |-> FALSE, hasResult |-> FALSE, result |-> ""]
              ELSE [valid |-> FALSE, is_dict |-> FALSE, hasResult |-> FALSE, result |-> ""]

\* a content item with a text attribute, and one without (an image, a resource)
TextItem(text) == [text |-> text, has_text |-> TRUE]
NoTextItem == [text |-> "", has_text |-> FALSE]

ContentResult(texts) ==
    [kind |-> "result", content |-> [i \in 1..Len(texts) |-> TextItem(texts[i])]]
RaiseResponse(type) == [kind |-> "raise", content |-> <<type>>]

CallResponses ==
    { ContentResult(<<TextResultJson>>), ContentResult(<<TextPlain>>),
      RaiseResponse("ValueError"), RaiseResponse("McpError") }

\* the content items a response may carry
ContentItems ==
    {TextItem(x) : x \in {TextResultJson, TextPlain, TextJsonNoResult, TextJsonString}}
        \cup {NoTextItem}

\* the responses with at most MaxContent content items
CallResponseShapes ==
    {[kind |-> "result", content |-> c] :
        c \in UNION {[1..n -> ContentItems] : n \in 0..MaxContent}}

\* the value call_tool returns for a provider result whose items carry text
Unwrap(result) ==
    IF Len(result.content) > 0
    THEN IF Len(result.content) = 1
         THEN LET text_result == result.content[1].text
                  parsed == JsonLoads(text_result)
              IN IF parsed.valid /\ parsed.is_dict /\ parsed.hasResult
                 THEN <<"parsed_result", parsed.result>>
                 ELSE <<"text", text_result>>
         ELSE <<"texts", [i \in 1..Len(result.content) |-> result.content[i].text]>>
    ELSE <<"raw", result>>

----------------------------------------------------------------------------
(* Outcomes of a registry coroutine *)

NoOutcome == [kind |-> "none", type |-> "", value |-> <<>>]
Return(v) == [kind |-> "return", type |-> "", value |-> v]
Raise(type, v) == [kind |-> "raise", type |-> type, value |-> v]

\* f"Tool '{tool_name}' not found"
MsgNotFound(name) == <<"Tool not found", name>>

\* f"Tool '{tool_name}' not found. Available tools: {available}"
MsgNotFoundAvailable(name, available) == <<"Tool not found. Available tools", name, available>>

\* f"Tool '{name}' not found. Also tried '{name_with_hyphens}'. Available tools: {available}"
MsgNotFoundAlsoTried(name, tried, available) ==
    <<"Tool not found. Also tried. Available tools", name, tried, available>>

\* the dict get_tool_schema returns for a tool record
SchemaOf(tool_info) ==
    <<"schema", [name |-> tool_info.name, description |-> tool_info.description,
                 parameters |-> tool_info.inputSchema]>>

ListEntry(tool_info, include_schemas) ==
    IF include_schemas
    THEN <<tool_info.name, tool_info.description, tool_info.inputSchema>>
    ELSE <<tool_info.name, tool_info.description>>

\* list_tools after the load
ListToolsResult(tc, include_schemas) ==
    <<"tools", [i \in 1..Len(tc) |-> ListEntry(tc[i], include_schemas)]>>

\* get_tool_schema after the load
GetToolSchemaResult(tc, tool_name) ==
    IF InCache(tc, tool_name)
    THEN Return(SchemaOf(Lookup(tc, tool_name)))
    ELSE IF HasFallback(tool_name) /\ InCache(tc, NameWithHyphens(tool_name))
         THEN Return(SchemaOf(Lookup(tc, NameWithHyphens(tool_name))))
         ELSE Raise("ValueError", MsgNotFoundAvailable(tool_name, DictKeys(tc)))

----------------------------------------------------------------------------
(* Registry coroutines *)

NameP_A_B == <<"p", U, "a", U, "b">>
NameP_A_A_B == <<"p", U, "a", U, "a", U, "b">>
NameP_B == <<"p", U, "b">>

\* the names callers ask for
OpNames == {NameP_A_B, NameP_A_A_B, NameP_B}

Kwargs == {<<"a", 5>>}

NoOp == [kind |-> "none", name |-> <<>>, kwargs |-> <<>>, include_schemas |-> FALSE]

\* the public coroutines a caller may start
Ops ==
    { [kind |-> "ensure", name |-> <<>>, kwargs |-> <<>>, include_schemas |-> FALSE] }
    \cup { [kind |-> "list_tools", name |-> <<>>, kwargs |-> <<>>, include_schemas |-> b] :
             b \in BOOLEAN }
    \cup { [kind |-> "get_tool_schema", name |-> n, kwargs |-> <<>>, include_schemas |-> FALSE] :
             n \in OpNames }
    \cup { [kind |-> k, name |-> n, kwargs |-> kw, include_schemas |-> FALSE] :
             k \in {"call_tool", "call_wrapper"}, n \in OpNames, kw \in Kwargs }

\* json.dumps(value, indent=2)
JsonDumps(value) == <<"json", value>>

\* the facade's list_mcp_tools: json.dumps({"available_tools": tools})
ListMcpToolsResult(tc, include_schemas) ==
    Return(JsonDumps(<<"available_tools", ListToolsResult(tc, include_schemas)>>))

\* the facade's get_tool_schema: it awaits registry.get_tool_schema without a try,
\* so what the registry raises leaves the facade function as raised
FacadeGetToolSchemaResult(tc, tool_name) ==
    LET o == GetToolSchemaResult(tc, tool_name)
    IN IF o.kind = "return" THEN Return(JsonDumps(o.value)) ELSE o

\* the coroutines the agent runtime may start on the facade
FacadeOps ==
    { [kind |-> "list_mcp_tools", name |-> <<>>, kwargs |-> <<>>, include_schemas |-> b] :
        b \in BOOLEAN }
    \cup { [kind |-> "facade_get_tool_schema", name |-> n, kwargs |-> <<>>,
            include_schemas |-> FALSE] : n \in OpNames }

IdleTask ==
    [pc |-> "idle", op |-> NoOp, cur |-> <<>>, attempt |-> 1, idx |-> 0, dlen |-> 0,
     session |-> NoSession, sent |-> <<>>, resp |-> <<>>, outcome |-> NoOutcome,
     hit |-> FALSE, reqs |-> 0, looked |-> FALSE, seen |-> <<>>]

\* a coroutine object just created for op; hit: the cache was non-empty at that moment
Fresh(op, hit) ==
    [IdleTask EXCEPT !.pc = "run", !.op = op, !.cur = op.name, !.hit = hit]

Done(r, o) == [r EXCEPT !.pc = "done", !.outcome = o]

\* a callTool request that carries the public name instead of the raw name
CallRequestPublicName(session, name, arguments, tool) ==
    [session |-> session, name |-> tool, arguments |-> arguments, tool |-> tool]

\* one callTool request: session.call_tool(name, arguments=...); tool is the public
\* name the lookup resolved, kept for the record only
CallRequest(session, name, arguments, tool) ==
    [session |-> session, name |-> name, arguments |-> arguments, tool |-> tool]

RECURSIVE EnsureToolsLoaded(_, _, _, _)
RECURSIVE AfterEnsure(_, _, _, _)
RECURSIVE CallTool(_, _, _, _)
RECURSIVE OnValueError(_, _, _, _, _)

\* _ensure_tools_loaded without the cache test: it loads on every call
EnsureToolsLoadedAlways(r, ts, tc, sc) ==
    IF Len(ts) = 0
    THEN AfterEnsure(r, ts, tc, sc)
    ELSE [r EXCEPT !.pc = "open", !.idx = 1, !.dlen = Len(ts), !.reqs = @ + 1]

\* _ensure_tools_loaded up to its first await: a non-empty cache returns at once,
\* otherwise the loop starts with create_session() on the first toolset
EnsureToolsLoaded(r, ts, tc, sc) ==
    IF Len(tc) > 0 \/ Len(ts) = 0
    THEN AfterEnsure(r, ts, tc, sc)
    ELSE [r EXCEPT !.pc = "open", !.idx = 1, !.dlen = Len(ts), !.reqs = @ + 1]

\* what the coroutine does once _ensure_tools_loaded has returned; looked and
\* seen record the cache it then reads
AfterEnsure(r, ts, tc, sc) ==
    LET q == [r EXCEPT !.looked = TRUE, !.seen = tc]
    IN CASE q.op.kind = "ensure" -> Done(q, Return(<<"None">>))
         [] q.op.kind = "list_tools" ->
               Done(q, Return(ListToolsResult(tc, q.op.include_schemas)))
         [] q.op.kind = "get_tool_schema" -> Done(q, GetToolSchemaResult(tc, q.op.name))
         [] q.op.kind = "list_mcp_tools" ->
               Done(q, ListMcpToolsResult(tc, q.op.include_schemas))
         [] q.op.kind = "facade_get_tool_schema" ->
               Done(q, FacadeGetToolSchemaResult(tc, q.op.name))
         [] OTHER -> CallTool(q, ts, tc, sc)

\* call_tool from the membership test to the await of session.call_tool
CallTool(r, ts, tc, sc) ==
    IF ~InCache(tc, r.cur)
    THEN OnValueError(r, MsgNotFound(r.cur), ts, tc, sc)
    ELSE IF r.cur \notin DOMAIN sc
         THEN Done(r, Raise("KeyError", <<r.cur>>))
         ELSE [r EXCEPT !.pc = "call",
                        !.sent = Append(@, CallRequest(sc[r.cur], Lookup(tc, r.cur).raw_name,
                                                       r.op.kwargs, r.cur))]

\* a ValueError raised inside call_tool: call_tool lets it out, call_wrapper
\* catches it, retries once with the hyphenated name and then reports not found
OnValueError(r, msg, ts, tc, sc) ==
    IF r.op.kind = "call_tool"
    THEN Done(r, Raise("ValueError", msg))
    ELSE IF r.attempt = 1
         THEN IF HasFallback(r.op.name)
              THEN EnsureToolsLoaded([r EXCEPT !.attempt = 2,
                                               !.cur = NameWithHyphens(r.op.name)],
                                     ts, tc, sc)
              ELSE Done(r, Raise("ValueError",
                                 MsgNotFoundAvailable(r.op.name, DictKeys(tc))))
         ELSE Done(r, Raise("ValueError",
                            MsgNotFoundAlsoTried(r.op.name, r.cur, DictKeys(tc))))

\* the public name under which a raw tool of toolset p is stored
PublicName(p, raw_name) ==
    IF Len(ToolNamePrefix(p)) > 0 THEN ToolNamePrefix(p) \o raw_name ELSE raw_name

ToolInfo(p, raw_tool) ==
    [name |-> PublicName(p, raw_tool.name), raw_name |-> raw_tool.name,
     description |-> raw_tool.description, inputSchema |-> raw_tool.inputSchema]

RECURSIVE StoreTools(_, _, _, _)
\* the loop over tools_response.tools, from entry i on: the cache after it
StoreTools(tc, p, tools, i) ==
    IF i > Len(tools) THEN tc
    ELSE StoreTools(DictPut(tc, ToolInfo(p, tools[i])), p, tools, i + 1)

\* a loop that records the session for the first tool of the provider only
StoreSessionsFirstOnly(sc, p, session, tools, i) ==
    IF Len(tools) = 0 THEN sc
    ELSE SessionPut(sc, PublicName(p, tools[1].name), session)

RECURSIVE StoreSessions(_, _, _, _, _)
\* the same loop: the sessions cache after it
StoreSessions(sc, p, session, tools, i) ==
    IF i > Len(tools) THEN sc
    ELSE StoreSessions(SessionPut(sc, PublicName(p, tools[i].name), session),
                       p, session, tools, i + 1)

\* the for loop's next step after one toolset was stored: the dict iterator
\* raises when the dict changed size, else the next create_session or the end
NextToolset(r, ts, tc, sc) ==
    IF Len(ts) # r.dlen
    THEN Done(r, Raise("RuntimeError", <<"dictionary changed size during iteration">>))
    ELSE IF r.idx < Len(ts)
         THEN [r EXCEPT !.pc = "open", !.idx = @ + 1, !.reqs = @ + 1]
         ELSE AfterEnsure(r, ts, tc, sc)

\* the request counters after a step that took task record old to new
CountOpens(old, new, ts) ==
    IF new.pc = "open" /\ (old.pc # "open")
    THEN [opens EXCEPT ![ts[new.idx]] = @ + 1]
    ELSE opens

----------------------------------------------------------------------------
(* Execution engine: execute_code and the SIGALRM timer *)

MaxCalls == 2
MaxTimeout == 2

Timeouts == 1..MaxTimeout

\* execute_python_code passes timeout=30; it cuts stdout at 1000 and stderr at 500
FacadeTimeout == 30
StdoutLimit == 1000
StderrLimit == 500

NoneValue == <<"None">>
Str(x) == <<"str", x>>

\* text is a sequence of characters
Repeat(c, n) == [i \in 1..n |-> c]

\* a Python value a snippet binds: its type, its repr, and whether it has __name__
Val(type, repr, has_name) == [type |-> type, repr |-> repr, has_name |-> has_name]

IntVal(repr) == Val("int", repr, FALSE)
StrVal(repr) == Val("str", repr, FALSE)
ModuleVal(repr) == Val("module", repr, TRUE)
FunctionVal(repr) == Val("function", repr, TRUE)

\* what tools.<name>(...) returns when it is not awaited: the coroutine of call_wrapper
CoroutineVal == Val("coroutine", "<coroutine object call_wrapper>", TRUE)

\* one entry of a scope or of result['variables']
Binding(name, value) == [name |-> name, value |-> value]

\* a snippet, by what running it does: async/await_top are what the text contains,
\* kind is how it ends when left alone, catches is whether its own except clause
\* catches Exception, locals is its final local scope, prints and errs are what it
\* writes to stdout and stderr, message is the text of the error it raises
Snippet(src, async, await_top, kind, catches, locals, prints, errs, message) ==
    [src |-> src, async |-> async, await_top |-> await_top, kind |-> kind,
     catches |-> catches, locals |-> locals, prints |-> prints, errs |-> errs,
     message |-> message]

Snippets ==
    { Snippet("result = 1 + 1", FALSE, FALSE, "ok", FALSE,
              <<Binding("result", IntVal("2"))>>, <<>>, <<>>, ""),
      Snippet("x = 'hi'; print(x)", FALSE, FALSE, "ok", FALSE,
              <<Binding("x", StrVal("'hi'"))>>, <<"h", "i">>, <<>>, ""),
      Snippet("import sys; print('x' * 1001); sys.stderr.write('e' * 501)", FALSE, FALSE,
              "ok", FALSE, <<Binding("sys", ModuleVal("<module 'sys'>"))>>,
              Repeat("x", StdoutLimit + 1), Repeat("e", StderrLimit + 1), ""),
      Snippet("print('hi'); raise ValueError('boom')", FALSE, FALSE, "raise", FALSE,
              <<>>, <<"h", "i">>, <<>>, "boom"),
      Snippet("import sys; sys.exit(1)", FALSE, FALSE, "exit", FALSE,
              <<Binding("sys", ModuleVal("<module 'sys'>"))>>, <<>>, <<>>, "1"),
      Snippet("while True: pass", FALSE, FALSE, "loop", FALSE, <<>>, <<>>, <<>>, ""),
      Snippet("while True: try: time.sleep(0.2); except Exception: pass", FALSE, FALSE, "loop", TRUE,
              <<>>, <<>>, <<>>, ""),
      Snippet("v = await tools.p_a_b(a=5); result = v", TRUE, TRUE, "ok", FALSE,
              <<Binding("v", IntVal("8")), Binding("result", IntVal("8"))>>,
              <<>>, <<>>, ""),
      Snippet("result = await tools.p_b(a=5)", TRUE, TRUE, "raise", FALSE,
              <<>>, <<>>, <<>>, "Tool 'p_b' not found. Also tried 'p_b'. Available tools: p_a-b"),
      Snippet("result = tools.p_a_b(a=5)", FALSE, FALSE, "ok", FALSE,
              <<Binding("result", CoroutineVal)>>, <<>>, <<>>, ""),
      Snippet("def f(): pass; result = f", FALSE, FALSE, "ok", FALSE,
              <<Binding("f", FunctionVal("<function f>")),
                Binding("result", FunctionVal("<function f>"))>>, <<>>, <<>>, "") }

NoSnippet == Snippet("", FALSE, FALSE, "ok", FALSE, <<>>, <<>>, <<>>, "")

\* result = {'success': False, 'stdout': '', 'stderr': '', 'variables': {}, 'error': None}
InitialResult ==
    [success |-> FALSE, stdout |-> <<>>, stderr |-> <<>>, variables |-> <<>>,
     error |-> NoneValue]

\* f"Execution timed out after {timeout} seconds"
MsgTimedOut(timeout) == <<"str", "Execution timed out after", timeout, "seconds">>

\* f"Variable '{key}' is a coroutine - you forgot to use 'await' ..."
MsgForgotAwait(key) == <<"str", "Variable is a coroutine - you forgot to use 'await'", key>>

NoPayload == [success |-> FALSE, stdout |-> <<>>, stderr |-> <<>>,
              variables |-> [t |-> "none", v |-> <<>>], error |-> NoneValue]

ExIdle ==
    [pc |-> "idle", calls |-> 0, sigalrm |-> TRUE, code |-> NoSnippet, capture_output |-> TRUE,
     timeout |-> 1, alarm |-> 0, owner |-> 0, exc |-> "none", result |-> InitialResult,
     raised |-> "none", stale |-> FALSE, fired |-> FALSE, path |-> "none",
     exec_locals |-> <<>>, facade |-> FALSE, payload |-> NoPayload]

\* if 'await ' in code or 'async ' in code
UsesAsync(code) == code.await_top \/ code.async

\* the branch lines 91-119 take: the async wrapper is only built under capture_output
ExecPath(code, capture_output) ==
    IF capture_output /\ UsesAsync(code) THEN "wrapped" ELSE "direct"

\* how the snippet ends under exec(): text with a top-level await that is not
\* wrapped into async def __main__ does not compile
EffectiveKind(code, capture_output) ==
    IF code.await_top /\ ~capture_output THEN "syntax" ELSE code.kind

RECURSIVE Update(_, _, _)
\* dict.update(other), from entry i of other on
Update(d, other, i) ==
    IF i > Len(other) THEN d ELSE Update(DictPut(d, other[i]), other, i + 1)

\* exec_locals after exec(wrapped_code, ...) and exec_locals.update(__result__)
WrappedLocals(code) ==
    Update(<<Binding("__main__", FunctionVal("<function __main__>")),
             Binding("asyncio", ModuleVal("<module 'asyncio'>")),
             Binding("nest_asyncio", ModuleVal("<module 'nest_asyncio'>")),
             Binding("__result__", Val("dict", "locals()", FALSE))>>,
           code.locals, 1)

\* exec_locals after the snippet ran to its end on the given path
ExecLocals(code, path) ==
    IF path = "wrapped" THEN WrappedLocals(code) ELSE code.locals

\* timeout_handler raising TimeoutException at the point where execute_code, the
\* snippet or the caller is when the signal is delivered; in_try: the snippet is
\* then inside its own try block
TimeoutHandler(e, in_try) ==
    CASE e.pc \in {"idle", "returned", "replied", "setup", "handlers"} ->
            [e EXCEPT !.stale = TRUE, !.raised = "TimeoutException"]
      [] e.pc = "armed" -> [e EXCEPT !.exc = "TimeoutException", !.pc = "handlers"]
      [] e.pc = "exec" ->
            IF /\ in_try /\ e.code.catches
               /\ EffectiveKind(e.code, e.capture_output) # "syntax"
            THEN e
            ELSE [e EXCEPT !.exc = "TimeoutException", !.pc = "finally"]
      [] e.pc \in {"stored", "extracted"} ->
            [e EXCEPT !.exc = "TimeoutException", !.pc = "finally"]
      [] e.pc = "finally" -> [e EXCEPT !.exc = "TimeoutException", !.pc = "handlers"]

\* the caller is back in control: execute_code returned or raised, and
\* execute_python_code, when it made the call, has answered or was left by the error
CallerReady ==
    \/ ex.pc \in {"idle", "replied"}
    \/ ex.pc = "returned" /\ (~ex.facade \/ ex.raised # "none")

\* the state in which execute_code starts: lines 65-83
Called(code, capture_output, timeout, facade) ==
    [ex EXCEPT !.pc = "setup", !.calls = @ + 1, !.code = code,
               !.capture_output = capture_output, !.timeout = timeout,
               !.exc = "none", !.result = InitialResult, !.raised = "none",
               !.fired = FALSE, !.path = "none", !.exec_locals = <<>>,
               !.facade = facade, !.payload = NoPayload]

\* execute_code is called: lines 65-83
ExecuteCode(code, capture_output, timeout) ==
    /\ CallerReady
    /\ ex.calls < MaxCalls
    /\ ex' = Called(code, capture_output, timeout, FALSE)
    /\ UNCHANGED <<regVars, sch>>

\* execute_python_code is called: execute_code(code, capture_output=True, timeout=30)
ExecutePythonCode(code) ==
    /\ CallerReady
    /\ ex.calls < MaxCalls
    /\ ex' = Called(code, TRUE, FacadeTimeout, TRUE)
    /\ UNCHANGED <<regVars, sch>>

\* if hasattr(signal, 'SIGALRM'): signal.signal(...); signal.alarm(timeout)
SetAlarm ==
    /\ ex.pc = "setup"
    /\ ex' = IF ex.sigalrm
             THEN [ex EXCEPT !.pc = "armed", !.alarm = ex.timeout, !.owner = ex.calls]
             ELSE [ex EXCEPT !.pc = "armed"]
    /\ UNCHANGED <<regVars, sch>>

\* the inner try is entered and the branch for the snippet is taken
EnterTry ==
    /\ ex.pc = "armed"
    /\ ex' = [ex EXCEPT !.pc = "exec", !.path = ExecPath(ex.code, ex.capture_output)]
    /\ UNCHANGED <<regVars, sch>>

\* exec() of the snippet to its end, and lines 116-117 when it ended normally
RunSnippet ==
    /\ ex.pc = "exec"
    /\ LET kind == EffectiveKind(ex.code, ex.capture_output)
       IN /\ kind # "loop"
          /\ ex' = CASE kind = "ok" ->
                         [ex EXCEPT !.pc = "stored",
                                    !.exec_locals = ExecLocals(ex.code, ex.path),
                                    !.result.stdout = IF ex.capture_output
                                                      THEN ex.code.prints ELSE <<>>,
                                    !.result.stderr = IF ex.capture_output
                                                      THEN ex.code.errs ELSE <<>>]
                     [] kind = "exit" -> [ex EXCEPT !.pc = "finally", !.exc = "SystemExit"]
                     [] OTHER -> [ex EXCEPT !.pc = "finally", !.exc = "Exception"]
    /\ UNCHANGED <<regVars, sch>>

\* an extraction that copies every local into result['variables']
ExtractResultAll ==
    /\ ex.pc = "stored"
    /\ ex' = [ex EXCEPT !.pc = "extracted",
                        !.result.variables = Update(@, ex.exec_locals, 1)]
    /\ UNCHANGED <<regVars, sch>>

\* if 'result' in exec_locals: result['variables']['result'] = exec_locals['result']
ExtractResult ==
    /\ ex.pc = "stored"
    /\ ex' = [ex EXCEPT !.pc = "extracted",
                        !.result.variables =
                            IF InCache(ex.exec_locals, "result")
                            THEN DictPut(@, Binding("result",
                                                    Lookup(ex.exec_locals, "result").value))
                            ELSE @]
    /\ UNCHANGED <<regVars, sch>>

\* result['success'] = True
SetSuccess ==
    /\ ex.pc = "extracted"
    /\ ex' = [ex EXCEPT !.pc = "finally", !.result.success = TRUE]
    /\ UNCHANGED <<regVars, sch>>

\* a finally clause that cancels the alarm only when nothing was raised
CancelAlarmOnSuccessOnly ==
    /\ ex.pc = "finally"
    /\ ex' = [ex EXCEPT !.pc = "handlers",
                        !.alarm = IF ex.sigalrm /\ ex.exc = "none" THEN 0 ELSE @]
    /\ UNCHANGED <<regVars, sch>>

\* finally: if hasattr(signal, 'SIGALRM'): signal.alarm(0)
CancelAlarm ==
    /\ ex.pc = "finally"
    /\ ex' = [ex EXCEPT !.pc = "handlers", !.alarm = IF ex.sigalrm THEN 0 ELSE @]
    /\ UNCHANGED <<regVars, sch>>

\* the except clauses and return result; SystemExit is no Exception and leaves
\* execute_code as it is
Handlers ==
    /\ ex.pc = "handlers"
    /\ ex' = CASE ex.exc = "TimeoutException" ->
                    [ex EXCEPT !.pc = "returned", !.exc = "none",
                               !.result.error = MsgTimedOut(ex.timeout),
                               !.result.success = FALSE]
                [] ex.exc = "Exception" ->
                    [ex EXCEPT !.pc = "returned", !.exc = "none",
                               !.result.error =
                                   IF EffectiveKind(ex.code, ex.capture_output) = "syntax"
                                   THEN Str("'await' outside function")
                                   ELSE Str(ex.code.message),
                               !.result.success = FALSE]
                [] ex.exc = "SystemExit" ->
                    [ex EXCEPT !.pc = "returned", !.exc = "none", !.raised = "SystemExit"]
                [] OTHER -> [ex EXCEPT !.pc = "returned"]
    /\ UNCHANGED <<regVars, sch>>

\* one second passes on an armed timer; at zero SIGALRM is delivered, wherever
\* the program then is
Tick(in_try) ==
    /\ ex.alarm > 0
    /\ ex' = IF ex.alarm = 1
             THEN TimeoutHandler([ex EXCEPT !.alarm = 0, !.fired = TRUE], in_try)
             ELSE [ex EXCEPT !.alarm = @ - 1]
    /\ UNCHANGED <<regVars, sch>>

----------------------------------------------------------------------------
(* Dispatch facade: execute_python_code after execute_code returned *)

\* hasattr(value, '__name__') and 'coroutine' in str(type(value))
IsCoroutine(value) == value.has_name /\ value.type = "coroutine"

\* text[:limit]
Truncate(text, limit) == SubSeq(text, 1, IF Len(text) < limit THEN Len(text) ELSE limit)

\* str(variables) if variables else {}: a string, or the empty dict itself
VariablesField(variables) ==
    IF Len(variables) > 0 THEN [t |-> "str", v |-> variables] ELSE [t |-> "dict", v |-> <<>>]

\* execute_python_code without the coroutine check of lines 58-66
FilteredResultUnchecked(result) ==
    [success |-> result.success,
     stdout |-> Truncate(result.stdout, StdoutLimit),
     stderr |-> Truncate(result.stderr, StderrLimit),
     variables |-> VariablesField(result.variables),
     error |-> result.error]

\* filtered_result of execute_python_code for the result execute_code returned
FilteredResult(result) ==
    LET variables == result.variables
        found == {i \in 1..Len(variables) : IsCoroutine(variables[i].value)}
        first == CHOOSE i \in found : \A j \in found : i <= j
    IN [success |-> IF found # {} THEN FALSE ELSE result.success,
        stdout |-> Truncate(result.stdout, StdoutLimit),
        stderr |-> Truncate(result.stderr, StderrLimit),
        variables |-> VariablesField(IF found # {} THEN <<>> ELSE variables),
        error |-> IF found # {} THEN MsgForgotAwait(variables[first].name)
                  ELSE result.error]

\* lines 58-76: execute_code returned to execute_python_code, which answers
FacadeReturn ==
    /\ ex.pc = "returned"
    /\ ex.facade
    /\ ex.raised = "none"
    /\ ex' = [ex EXCEPT !.pc = "replied", !.payload = FilteredResult(ex.result)]
    /\ UNCHANGED <<regVars, sch>>

----------------------------------------------------------------------------
(* Schema fixer: fix_schema_for_gemini *)

MaxItems == 2
MaxFields == 2
MaxWide == 2
MaxThin == 4

\* a JSON value: None, a primitive p, a list l of values, or a dict d, written as
\* its fields [k, x] in the order of SchemaKeys (dict equality ignores order)
None == [t |-> "none", p |-> "", l |-> <<>>, d |-> <<>>]
Prim(x) == [t |-> "prim", p |-> x, l |-> <<>>, d |-> <<>>]
List(items) == [t |-> "list", p |-> "", l |-> items, d |-> <<>>]
Dict(fields) == [t |-> "dict", p |-> "", l |-> <<>>, d |-> fields]

HasField(s, key) == \E i \in 1..Len(s.d) : s.d[i].k = key

\* schema[key]
Field(s, key) == s.d[CHOOSE i \in 1..Len(s.d) : s.d[i].k = key].x

\* key in ['items', 'prefixItems', 'contains', 'additionalItems']
TupleFields == {"items", "prefixItems", "contains", "additionalItems"}

\* key in ['anyOf', 'oneOf', 'allOf']
Combinators == {"anyOf", "oneOf", "allOf"}

RECURSIVE FixSchemaForGemini(_)
RECURSIVE FieldKept(_, _)
RECURSIVE FieldValue(_, _)
RECURSIVE FixFields(_, _, _)

\* a loop that keeps a tuple-validation list whenever it is not empty
FieldKeptNonEmptyTuple(key, value) ==
    IF key \in TupleFields
    THEN value.t = "list" => Len(value.l) > 0
    ELSE IF key \in Combinators
         THEN TRUE
         ELSE FixSchemaForGemini(value) # None \/ value = None

\* a loop that leaves out every field whose fixed value is None
FieldKeptDropsNull(key, value) ==
    IF key \in TupleFields
    THEN IF value.t = "list" THEN Len(value.l) > 0 /\ value.l[1].t = "dict"
         ELSE value # None
    ELSE IF key \in Combinators
         THEN value # None
         ELSE FixSchemaForGemini(value) # None

\* whether the loop over schema.items() stores anything under key
FieldKept(key, value) ==
    IF key \in TupleFields
    THEN value.t = "list" => (Len(value.l) > 0 /\ value.l[1].t = "dict")
    ELSE IF key \in Combinators
         THEN TRUE
         ELSE FixSchemaForGemini(value) # None \/ value = None

\* a loop that drops the combinator items whose fixed value is None
FieldValueDropsHoles(key, value) ==
    IF key \in TupleFields
    THEN IF value.t = "list" THEN FixSchemaForGemini(value.l[1])
         ELSE IF value.t = "dict" THEN FixSchemaForGemini(value)
              ELSE value
    ELSE IF key \in Combinators
         THEN IF value.t = "list"
              THEN LET Kept(x) == x # None
                   IN List(SelectSeq([i \in 1..Len(value.l) |->
                                         FixSchemaForGemini(value.l[i])], Kept))
              ELSE value
         ELSE FixSchemaForGemini(value)

\* what the loop over schema.items() stores under key
FieldValue(key, value) ==
    IF key \in TupleFields
    THEN IF value.t = "list" THEN FixSchemaForGemini(value.l[1])
         ELSE IF value.t = "dict" THEN FixSchemaForGemini(value)
              ELSE value
    ELSE IF key \in Combinators
         THEN IF value.t = "list"
              THEN List([i \in 1..Len(value.l) |-> FixSchemaForGemini(value.l[i])])
              ELSE value
         ELSE FixSchemaForGemini(value)

\* the loop over schema.items() from field i on, fixed being the dict built so far
FixFields(fields, i, fixed) ==
    IF i > Len(fields) THEN fixed
    ELSE FixFields(fields, i + 1,
                   IF FieldKept(fields[i].k, fields[i].x)
                   THEN Append(fixed, [k |-> fields[i].k,
                                       x |-> FieldValue(fields[i].k, fields[i].x)])
                   ELSE fixed)

\* a fixer whose list branch returns the first item as it is
FixFirstItemUnfixed(schema) ==
    IF schema.t = "none" THEN None
    ELSE IF schema.t \notin {"dict", "list"} THEN schema
    ELSE IF schema.t = "list"
         THEN IF Len(schema.l) = 0 THEN None
              ELSE IF schema.l[1].t = "dict" THEN schema.l[1] ELSE None
         ELSE Dict(FixFields(schema.d, 1, <<>>))

\* fix_schema_for_gemini(schema)
FixSchemaForGemini(schema) ==
    IF schema.t = "none" THEN None
    ELSE IF schema.t \notin {"dict", "list"} THEN schema
    ELSE IF schema.t = "list"
         THEN IF Len(schema.l) = 0 THEN None
              ELSE IF schema.l[1].t = "dict" THEN FixSchemaForGemini(schema.l[1])
                   ELSE None
         ELSE Dict(FixFields(schema.d, 1, <<>>))

\* the keys of the input schemas: one per branch of the loop
SchemaKeys == <<"anyOf", "items", "required">>

Leaves == {None, Prim("a"), Prim("b")}

\* lists of at most MaxItems values of S
ListsOver(S) == {List(s) : s \in UNION {[1..n -> S] : n \in 0..MaxItems}}

\* the ways to pick n keys of SchemaKeys, in their order
KeyChoices(n) ==
    {c \in [1..n -> 1..Len(SchemaKeys)] : \A i \in 1..n, j \in 1..n : i < j => c[i] < c[j]}

\* dicts of at most MaxFields fields with values of S
DictsOver(S) ==
    UNION { {Dict([i \in 1..n |-> [k |-> SchemaKeys[c[i]], x |-> xs[i]]]) :
                c \in KeyChoices(n), xs \in [1..n -> S]} : n \in 0..MaxFields }

RECURSIVE Wide(_)
\* every value nested at most n deep
Wide(n) ==
    IF n = 0 THEN Leaves
    ELSE LET S == Wide(n - 1) IN Leaves \cup ListsOver(S) \cup DictsOver(S)

RECURSIVE Thin(_)
\* values of Wide(1) wrapped at most n times in a one-item list or a one-field dict
Thin(n) ==
    IF n = 0 THEN Wide(1)
    ELSE LET S == Thin(n - 1)
         IN S \cup {List(<<s>>) : s \in S}
              \cup {Dict(<<[k |-> SchemaKeys[c], x |-> s]>>) :
                       c \in 1..Len(SchemaKeys), s \in S}

\* one-field dicts whose value is a list of two values nested at most n deep
Paired(n) ==
    LET S == Wide(n)
    IN {Dict(<<[k |-> SchemaKeys[c], x |-> List(<<s1, s2>>)]>>) :
           c \in 1..Len(SchemaKeys), s1 \in S, s2 \in S}

\* the input schemas: all up to depth wide, the deeper chains up to thin wraps,
\* and the two-item lists of values one level less deep than wide under each key
SchemaInputs(wide, thin) == Wide(wide) \cup Thin(thin) \cup Paired(wide - 1)

SchIdle == [pc |-> "idle", input |-> None, fixed |-> None, again |-> None]

\* fixed_schema = fix_schema_for_gemini(raw_tool.inputSchema)
Normalize ==
    /\ sch.pc = "input"
    /\ sch' = [sch EXCEPT !.pc = "fixed", !.fixed = FixSchemaForGemini(sch.input)]
    /\ UNCHANGED <<regVars, ex>>

\* the fixer applied to its own output
NormalizeAgain ==
    /\ sch.pc = "fixed"
    /\ sch' = [sch EXCEPT !.pc = "again", !.again = FixSchemaForGemini(sch.fixed)]
    /\ UNCHANGED <<regVars, ex>>

----------------------------------------------------------------------------
(* Registry actions *)

\* ToolRegistry() and the providers as they are
InitRegistry ==
    /\ mcp_toolsets = <<>>
    /\ tools_cache = <<>>
    /\ sessions_cache = <<>>
    /\ catalog \in [Providers -> UNION {Catalogs(p) : p \in Providers}]
    /\ \A p \in Providers : catalog[p] \in Catalogs(p)
    /\ task = [t \in Tasks |-> IdleTask]
    /\ opens = [p \in Providers |-> 0]
    /\ lists = [p \in Providers |-> 0]
    /\ nops = 0
    /\ faults = 0
    /\ began = <<>>

Init ==
    /\ InitRegistry
    /\ ex = ExIdle
    /\ sch = SchIdle

\* a registration that also empties both caches
RegisterClearsCache(p) ==
    /\ mcp_toolsets' = ToolsetPut(mcp_toolsets, p)
    /\ tools_cache' = <<>>
    /\ sessions_cache' = <<>>
    /\ UNCHANGED <<catalog, task, opens, lists, nops, faults, began, ex, sch>>

\* register_mcp_toolset(name, toolset)
Register(p) ==
    /\ mcp_toolsets' = ToolsetPut(mcp_toolsets, p)
    /\ UNCHANGED <<tools_cache, sessions_cache, catalog, task, opens, lists, nops, faults, began, ex, sch>>

\* a caller starts list_tools, get_tool_schema, call_tool, tools.<name>(...) or
\* _ensure_tools_loaded; the coroutine runs to its first suspension or to its end
StartOp(t, op) ==
    /\ task[t].pc \in {"idle", "done"}
    /\ \A u \in Tasks : u < t => task[u].pc # "idle"   \* tasks are numbered as they first start
    /\ nops < MaxOps
    /\ LET new == EnsureToolsLoaded(Fresh(op, Len(tools_cache) > 0),
                                    mcp_toolsets, tools_cache, sessions_cache)
       IN /\ task' = [task EXCEPT ![t] = new]
          /\ opens' = CountOpens(task[t], new, mcp_toolsets)
          /\ began' = IF nops = 0 THEN mcp_toolsets ELSE began
    /\ nops' = nops + 1
    /\ UNCHANGED <<mcp_toolsets, tools_cache, sessions_cache, catalog, lists, faults, ex, sch>>

\* create_session() returns: list_tools() is requested on the session
OpenResponse(t) ==
    /\ task[t].pc = "open"
    /\ LET p == mcp_toolsets[task[t].idx]
       IN /\ task' = [task EXCEPT ![t] = [@ EXCEPT !.pc = "list", !.session = Session(p),
                                                   !.reqs = @ + 1]]
          /\ lists' = [lists EXCEPT ![p] = @ + 1]
    /\ UNCHANGED <<mcp_toolsets, tools_cache, sessions_cache, catalog, opens, nops, faults, began, ex, sch>>

\* create_session() raises
OpenFails(t) ==
    /\ task[t].pc = "open"
    /\ faults < MaxFaults
    /\ task' = [task EXCEPT ![t] = Done(@, Raise("McpError", <<"create_session">>))]
    /\ faults' = faults + 1
    /\ UNCHANGED <<mcp_toolsets, tools_cache, sessions_cache, catalog, opens, lists, nops, began, ex, sch>>

\* list_tools() returns: its tools are stored, then the loop goes on
ListResponse(t) ==
    /\ task[t].pc = "list"
    /\ LET r == task[t]
           p == r.session.provider
           tools == [i \in 1..Len(catalog[p]) |-> RawTool(p, catalog[p][i])]
           tc == StoreTools(tools_cache, p, tools, 1)
           sc == StoreSessions(sessions_cache, p, r.session, tools, 1)
           new == NextToolset(r, mcp_toolsets, tc, sc)
       IN /\ tools_cache' = tc
          /\ sessions_cache' = sc
          /\ task' = [task EXCEPT ![t] = new]
          /\ opens' = CountOpens(r, new, mcp_toolsets)
    /\ UNCHANGED <<mcp_toolsets, catalog, lists, nops, faults, began, ex, sch>>

\* list_tools() raises
ListFails(t) ==
    /\ task[t].pc = "list"
    /\ faults < MaxFaults
    /\ task' = [task EXCEPT ![t] = Done(@, Raise("McpError", <<"list_tools">>))]
    /\ faults' = faults + 1
    /\ UNCHANGED <<mcp_toolsets, tools_cache, sessions_cache, catalog, opens, lists, nops, began, ex, sch>>

\* lines 122-145: reading .text of a content item that has none raises AttributeError
UnwrapOutcome(result) ==
    IF \E i \in 1..Len(result.content) : ~result.content[i].has_text
    THEN Raise("AttributeError", <<"object has no attribute 'text'">>)
    ELSE Return(Unwrap(result))

\* session.call_tool() returns or raises
CallResponse(t, response) ==
    /\ task[t].pc = "call"
    /\ LET r == [task[t] EXCEPT !.resp = Append(@, response)]
           new == IF response.kind = "result"
                  THEN Done(r, UnwrapOutcome(response))
                  ELSE IF response.content[1] = "ValueError"
                       THEN OnValueError(r, <<"provider error">>, mcp_toolsets,
                                         tools_cache, sessions_cache)
                       ELSE Done(r, Raise(response.content[1], <<"provider error">>))
       IN /\ task' = [task EXCEPT ![t] = new]
          /\ opens' = CountOpens(r, new, mcp_toolsets)
    /\ UNCHANGED <<mcp_toolsets, tools_cache, sessions_cache, catalog, lists, nops, faults, began, ex, sch>>

Next ==
    \/ \E p \in Providers : Register(p)
    \/ \E t \in Tasks, op \in Ops : StartOp(t, op)
    \/ \E t \in Tasks : OpenResponse(t)
    \/ \E t \in Tasks : OpenFails(t)
    \/ \E t \in Tasks : ListResponse(t)
    \/ \E t \in Tasks : ListFails(t)
    \/ \E t \in Tasks, response \in CallResponses : CallResponse(t, response)

Spec == Init /\ [][Next]_vars

\* the engine alone, on a platform with or without SIGALRM
InitExec ==
    /\ InitRegistry
    /\ catalog = [p \in Providers |-> IF p = ProviderP THEN <<RawAB>> ELSE <<>>]
    /\ ex \in {[ExIdle EXCEPT !.sigalrm = b] : b \in BOOLEAN}
    /\ sch = SchIdle

NextExec ==
    \/ \E code \in Snippets, capture_output \in BOOLEAN, timeout \in Timeouts :
            ExecuteCode(code, capture_output, timeout)
    \/ \E code \in Snippets : ExecutePythonCode(code)
    \/ SetAlarm
    \/ EnterTry
    \/ RunSnippet
    \/ ExtractResult
    \/ SetSuccess
    \/ CancelAlarm
    \/ Handlers
    \/ \E in_try \in BOOLEAN : Tick(in_try)
    \/ FacadeReturn

SpecExec == InitExec /\ [][NextExec]_vars

\* one caller only: its registry calls follow one another and never overlap
NextSeq ==
    \/ \E p \in Providers : Register(p)
    \/ \E op \in Ops : StartOp(1, op)
    \/ OpenResponse(1)
    \/ OpenFails(1)
    \/ ListResponse(1)
    \/ ListFails(1)
    \/ \E response \in CallResponses : CallResponse(1, response)

SpecSeq == Init /\ [][NextSeq]_vars

\* one caller invoking tools, the provider answering with every response shape
NextCall ==
    \/ \E p \in Providers : Register(p)
    \/ \E op \in {o \in Ops : o.kind \in {"call_tool", "call_wrapper"}} : StartOp(1, op)
    \/ OpenResponse(1)
    \/ ListResponse(1)
    \/ \E response \in CallResponseShapes : CallResponse(1, response)

SpecCall == Init /\ [][NextCall]_vars

\* the agent runtime calling the facade's list_mcp_tools and get_tool_schema,
\* one call after the other
NextFacade ==
    \/ \E p \in Providers : Register(p)
    \/ \E op \in FacadeOps : StartOp(1, op)
    \/ OpenResponse(1)
    \/ OpenFails(1)
    \/ ListResponse(1)
    \/ ListFails(1)

SpecFacade == Init /\ [][NextFacade]_vars

\* the schema fixer alone, on every input schema within the bounds
InitSchema ==
    /\ InitRegistry
    /\ catalog = [p \in Providers |-> IF p = ProviderP THEN <<RawAB>> ELSE <<>>]
    /\ ex = ExIdle
    /\ sch \in {[SchIdle EXCEPT !.pc = "input", !.input = s] : s \in SchemaInputs(MaxWide, MaxThin)}

NextSchema ==
    \/ Normalize
    \/ NormalizeAgain

SpecSchema == InitSchema /\ [][NextSchema]_vars

----------------------------------------------------------------------------
(* Vocabulary of the properties *)

Kind(t) == task[t].op.kind

\* task t's coroutine has read the cache (its _ensure_tools_loaded returned)
Looked(t) == task[t].looked /\ task[t].pc \in {"call", "done"}

Finished(t) == task[t].pc = "done"

HasHyphen(s) == \E i \in 1..Len(s) : s[i] = H

\* the Python identifier for a public name: every hyphen written as an underscore
Underscored(s) == [i \in 1..Len(s) |-> IF s[i] = H THEN U ELSE s[i]]

\* no create_session or list_tools failed, and nobody registered after the first call began
QuietLoad == faults = 0 /\ nops > 0 /\ Len(mcp_toolsets) = Len(began)

\* cache tc holds every tool of every provider registered when loading began
FullyLoaded(tc) ==
    \A i \in 1..Len(began) : \A j \in 1..Len(catalog[began[i]]) :
        InCache(tc, PublicName(began[i], catalog[began[i]][j]))

\* name resolves to no tool in cache tc, neither exactly nor by the hyphenated name
Unresolvable(tc, name) ==
    /\ ~InCache(tc, name)
    /\ ~(HasFallback(name) /\ InCache(tc, NameWithHyphens(name)))

----------------------------------------------------------------------------
(* C1: when callers trigger the load concurrently on an empty cache, every   *)
(* registered provider receives exactly one session-open and one listTools   *)
(* request over the whole run (providers answer, and each lists some tool).  *)
C1_PopulationOnce ==
    (QuietLoad /\ \A i \in 1..Len(began) : Len(catalog[began[i]]) > 0)
        => \A p \in Providers : opens[p] <= 1 /\ lists[p] <= 1

(* C2: the cache a caller of list_tools, get_tool_schema, call_tool or       *)
(* tools.<name> reads is empty or holds the tools of every provider that was *)
(* registered when loading began.                                            *)
C2_NeverPartial ==
    \A t \in Tasks :
        (Looked(t) /\ Kind(t) \in {"list_tools", "get_tool_schema", "call_tool", "call_wrapper"})
            => (task[t].seen = <<>> \/ FullyLoaded(task[t].seen))

(* C3 as stated: after two sequential calls that trigger the load, whatever   *)
(* tool lists the providers returned, every provider has received exactly    *)
(* one session-open and one listTools request and the second call sent none. *)
C3_SecondCallIsHit ==
    (nops = 2 /\ Finished(1) /\ QuietLoad)
        => /\ task[1].reqs = 0
           /\ \A i \in 1..Len(began) : opens[began[i]] = 1 /\ lists[began[i]] = 1

(* C3 amended: if no provider request failed and the first call left the     *)
(* cache non-empty, the second call sends no session-open and no listTools   *)
(* request, and every provider registered when the first call began has      *)
(* received exactly one of each.                                             *)
C3_SecondCallIsHitWhenNonEmpty ==
    (nops = 2 /\ Finished(1) /\ faults = 0 /\ task[1].hit)
        => /\ task[1].reqs = 0
           /\ \A i \in 1..Len(began) : opens[began[i]] = 1 /\ lists[began[i]] = 1

\* a second call has completed as a cache hit after both providers were loaded
C3_Witness ==
    /\ nops = 2 /\ Finished(1) /\ QuietLoad /\ task[1].hit
    /\ Len(began) = 2
    /\ Len(tools_cache) > 2

(* C4: call_tool finds a tool exactly when get_tool_schema finds one for the *)
(* same name in the same loaded cache, and then it is the same tool.         *)
C4_CallResolvesLikeGetSchema ==
    \A t, u \in Tasks :
        ( /\ Kind(t) = "call_tool" /\ Kind(u) = "get_tool_schema"
          /\ Looked(t) /\ Looked(u)
          /\ task[t].op.name = task[u].op.name
          /\ task[t].seen = task[u].seen /\ Len(task[t].seen) > 0 )
        => /\ (Len(task[t].sent) > 0) <=> (task[u].outcome.kind = "return")
           /\ (Len(task[t].sent) > 0) =>
                 task[t].sent[1].tool = task[u].outcome.value[2].name

(* C5: on a loaded registry tools.<name> and call_tool, given the same name  *)
(* and arguments, send the same requests and, given the same provider        *)
(* responses, end with the same value or the same error.                     *)
C5_WrapperEqualsCall ==
    \A t, u \in Tasks :
        ( /\ Kind(t) = "call_tool" /\ Kind(u) = "call_wrapper"
          /\ Finished(t) /\ Finished(u) /\ task[t].looked /\ task[u].looked
          /\ task[t].op.name = task[u].op.name
          /\ task[t].op.kwargs = task[u].op.kwargs
          /\ task[t].seen = task[u].seen /\ Len(task[t].seen) > 0 )
        => /\ task[t].sent = task[u].sent
           /\ (task[t].resp = task[u].resp) => (task[t].outcome = task[u].outcome)

(* C6: when the name resolves to no tool after both lookups, get_tool_schema,*)
(* call_tool and tools.<name> each fail with a ValueError whose message      *)
(* lists all public names in the cache, and no callTool request is sent.     *)
C6_NotFoundListsNames ==
    \A t \in Tasks :
        ( /\ Kind(t) \in {"get_tool_schema", "call_tool", "call_wrapper"}
          /\ Finished(t) /\ task[t].looked /\ faults = 0
          /\ Unresolvable(task[t].seen, task[t].op.name) )
        => /\ task[t].outcome.kind = "raise"
           /\ task[t].outcome.type = "ValueError"
           /\ task[t].outcome.value[1] \in {"Tool not found. Available tools",
                                           "Tool not found. Also tried. Available tools"}
           /\ task[t].outcome.value[Len(task[t].outcome.value)] = DictKeys(task[t].seen)
           /\ task[t].sent = <<>>

(* C7: for every loaded tool whose raw name has a hyphen, the identifier     *)
(* made of its public name with hyphens written as underscores resolves, in  *)
(* tools.<identifier>(...) and in get_tool_schema, to that tool, and the     *)
(* provider is called with the hyphenated raw name.                          *)
C7_HyphenatedToolReachable ==
    \A t \in Tasks :
        \A i \in 1..Len(task[t].seen) :
            ( /\ Kind(t) \in {"get_tool_schema", "call_wrapper"}
              /\ Looked(t) /\ faults = 0
              /\ HasHyphen(task[t].seen[i].raw_name)
              /\ task[t].op.name = Underscored(task[t].seen[i].name) )
            => IF Kind(t) = "get_tool_schema"
               THEN /\ task[t].outcome.kind = "return"
                    /\ task[t].outcome.value[2].name = task[t].seen[i].name
               ELSE /\ Len(task[t].sent) > 0
                    /\ task[t].sent[1].tool = task[t].seen[i].name
                    /\ task[t].sent[1].name = task[t].seen[i].raw_name

(* C8: every callTool request goes to the session of a registered provider   *)
(* that listed the resolved tool, and carries that tool's raw name and the   *)
(* caller's arguments, not the prefixed public name.                         *)
C8_RequestUsesRawNameOnOwnSession ==
    \A t \in Tasks :
        \A i \in 1..Len(task[t].sent) :
            LET q == task[t].sent[i]
                p == q.session.provider
            IN /\ InToolsets(mcp_toolsets, p)
               /\ \E j \in 1..Len(catalog[p]) : catalog[p][j] = q.name
               /\ PublicName(p, q.name) = q.tool
               /\ q.name # q.tool
               /\ q.arguments = task[t].op.kwargs
               /\ InCache(tools_cache, q.tool)

\* a request was sent for the public name that both providers produce, while
\* both also list a tool with the same raw name
C8_Witness ==
    \E t \in Tasks :
        /\ Len(task[t].sent) > 0
        /\ task[t].sent[1].tool = NameP_A_B
        /\ task[t].sent[1].name = RawB
        /\ InCache(tools_cache, PublicName(ProviderPA, RawAB))
        /\ InCache(tools_cache, PublicName(ProviderP, RawAB))
        /\ catalog[ProviderP] = <<RawAB, RawA_B>>

(* C9: when the provider's callTool raises for a resolved tool, call_tool    *)
(* and tools.<name> end with that very error and send no further request.    *)
C9_ProviderErrorPropagates ==
    \A t \in Tasks :
        \A i \in 1..Len(task[t].resp) :
            ( /\ Finished(t)
              /\ task[t].resp[i].kind = "raise"
              /\ \A j \in 1..(i-1) : task[t].resp[j].kind # "raise" )
            => /\ task[t].outcome = Raise(task[t].resp[i].content[1], <<"provider error">>)
               /\ Len(task[t].sent) = i

(* C10: once execute_code has returned no alarm is pending, however the run *)
(* ended, and a pending alarm always belongs to the call in progress: no    *)
(* timer fires after its call returned or during a later call.              *)
C10_AlarmDisarmedOnReturn ==
    /\ (ex.pc \in {"idle", "returned"} => ex.alarm = 0)
    /\ (ex.alarm > 0 => ex.owner = ex.calls)
    /\ ~ex.stale

\* a second call has returned after its own alarm fired
C10_Witness ==
    /\ ex.pc = "returned"
    /\ ex.sigalrm
    /\ ex.calls = 2
    /\ ex.result.error = MsgTimedOut(ex.timeout)
    /\ ex.alarm = 0

----------------------------------------------------------------------------
(* Vocabulary of the engine properties *)

\* the text of the error the snippet raises when it runs in the current call
ErrorText(e) ==
    IF EffectiveKind(e.code, e.capture_output) = "syntax"
    THEN Str("'await' outside function")
    ELSE Str(e.code.message)

\* the snippet of the current call ends by raising: a runtime error, a syntax
\* error, a registry not-found error, or an interpreter exit
RaisesError(e) == EffectiveKind(e.code, e.capture_output) \in {"raise", "syntax", "exit"}

\* the dict holding just the binding named result of scope d, if it has one
OnlyResult(d) ==
    IF InCache(d, "result") THEN <<Binding("result", Lookup(d, "result").value)>> ELSE <<>>

HasCoroutine(d) == \E i \in 1..Len(d) : d[i].value = CoroutineVal

(* C11: when the snippet raises an error while it runs and no timeout has     *)
(* fired, execute_code returns normally, nothing is raised to its caller, and *)
(* the result has success false and the error's text.                        *)
C11_SnippetErrorsBecomeResults ==
    (ex.pc = "returned" /\ ~ex.fired /\ RaisesError(ex))
        => /\ ex.raised = "none"
           /\ ex.result.success = FALSE
           /\ ex.result.error = ErrorText(ex)

(* C12: with alarm support, once the timer of a call has fired the snippet is *)
(* no longer running, whatever error handling it contains, and when the call  *)
(* has returned its result has success false and the timed-out message with   *)
(* the configured timeout.                                                    *)
C12_TimeoutAborts ==
    (ex.sigalrm /\ ex.fired)
        => /\ ex.pc # "exec"
           /\ ex.pc \in {"returned", "replied"}
                 => /\ ex.raised = "none"
                    /\ ex.result.success = FALSE
                    /\ ex.result.error = MsgTimedOut(ex.timeout)

(* C13: a snippet whose text has await or async is run through the async      *)
(* wrapper and its local bindings are merged back, any other snippet is run   *)
(* directly; the choice is the same with and without capture_output.          *)
C13_AsyncChoiceByTextOnly ==
    /\ ex.path # "none" => ex.path = (IF UsesAsync(ex.code) THEN "wrapped" ELSE "direct")
    /\ (ex.pc = "stored" /\ ex.path = "wrapped")
          => \A i \in 1..Len(ex.code.locals) :
                 /\ InCache(ex.exec_locals, ex.code.locals[i].name)
                 /\ Lookup(ex.exec_locals, ex.code.locals[i].name) = ex.code.locals[i]

(* C14: when a binding kept in the engine result is a coroutine that was not  *)
(* awaited, execute_python_code answers success false, the forgot-to-await    *)
(* error and no variables; otherwise it answers the engine's success and      *)
(* error unchanged.                                                           *)
C14_MissingAwaitGuard ==
    ex.pc = "replied"
        => IF HasCoroutine(ex.result.variables)
           THEN /\ ex.payload.success = FALSE
                /\ ex.payload.error = MsgForgotAwait("result")
                /\ ex.payload.variables.v = <<>>
           ELSE /\ ex.payload.success = ex.result.success
                /\ ex.payload.error = ex.result.error

\* the engine reported success with result bound to a coroutine, and the
\* facade answered with the forgot-to-await failure
C14_Witness ==
    /\ ex.pc = "replied"
    /\ ex.result.success
    /\ ex.result.variables = <<Binding("result", CoroutineVal)>>
    /\ ex.payload.success = FALSE
    /\ ex.payload.error = MsgForgotAwait("result")

(* C16: every payload execute_python_code answers has stdout of at most 1000  *)
(* characters, stderr of at most 500, variables as a string, and error as a   *)
(* string or null.                                                            *)
C16_PayloadShape ==
    ex.pc = "replied"
        => /\ Len(ex.payload.stdout) <= StdoutLimit
           /\ Len(ex.payload.stderr) <= StderrLimit
           /\ ex.payload.variables.t = "str"
           /\ (ex.payload.error = NoneValue \/ ex.payload.error[1] = "str")

(* C17: when execute_code returns success, result['variables'] holds the      *)
(* binding named result with the value the snippet gave it if the snippet's   *)
(* final local scope has one, and holds nothing else, on the direct and on    *)
(* the wrapped path.                                                          *)
C17_OnlyResultRetained ==
    (ex.pc \in {"returned", "replied"} /\ ex.result.success)
        => ex.result.variables = OnlyResult(ex.code.locals)

\* a wrapped snippet with another local has returned success with result alone
C17_Witness ==
    /\ ex.pc = "returned"
    /\ ex.result.success
    /\ ex.path = "wrapped"
    /\ Len(ex.code.locals) > 1
    /\ Len(ex.exec_locals) > Len(ex.code.locals)
    /\ ex.result.variables = <<Binding("result", IntVal("8"))>>

(* C15: the facade's get_tool_schema, called on a loaded registry with a name *)
(* that resolves to no tool, returns a payload to the agent runtime; the not-found error does not *)
(* leave the facade function as a raised exception.                          *)
C15_FacadeSchemaNotFoundIsPayload ==
    ( /\ Kind(1) = "facade_get_tool_schema"
      /\ Finished(1) /\ task[1].looked /\ Len(task[1].seen) > 0
      /\ Unresolvable(task[1].seen, task[1].op.name) )
    => task[1].outcome.kind = "return"

----------------------------------------------------------------------------
(* Vocabulary of the schema properties *)

RECURSIVE NoTupleSequence(_)
\* nowhere in s does a tuple-validation field hold a list
NoTupleSequence(s) ==
    IF s.t = "dict"
    THEN \A i \in 1..Len(s.d) :
             /\ (s.d[i].k \in TupleFields => s.d[i].x.t # "list")
             /\ NoTupleSequence(s.d[i].x)
    ELSE IF s.t = "list"
         THEN \A i \in 1..Len(s.l) : NoTupleSequence(s.l[i])
         ELSE TRUE

\* s is an object schema that declares a required list of field names
DeclaresRequired(s) ==
    /\ s.t = "dict"
    /\ HasField(s, "required")
    /\ Field(s, "required").t = "list"
    /\ Len(Field(s, "required").l) > 0
    /\ \A i \in 1..Len(Field(s, "required").l) : Field(s, "required").l[i].t = "prim"

(* C18: the fixer is idempotent: applied to its own output it returns that    *)
(* output, for dicts, lists, primitives and None nested within the bounds.    *)
C18_Idempotent ==
    sch.pc = "again" => sch.again = sch.fixed

\* a dict whose items field held a list of dicts was collapsed, and fixing the
\* output again changed nothing
C18_Witness ==
    /\ sch.pc = "again"
    /\ sch.input.t = "dict"
    /\ HasField(sch.input, "items")
    /\ Field(sch.input, "items").t = "list"
    /\ HasField(sch.fixed, "items")
    /\ Field(sch.fixed, "items").t = "dict"
    /\ sch.fixed # sch.input
    /\ sch.again = sch.fixed

(* C19: in the fixer's output no items, prefixItems, contains or              *)
(* additionalItems field holds a list, at any depth, for every input          *)
(* including those with nested schemas under anyOf, oneOf or allOf.           *)
C19_NoTupleSequenceAfterFix ==
    sch.pc \in {"fixed", "again"} => NoTupleSequence(sch.fixed)

(* C20: when the input is an object schema with a required list of field     *)
(* names, the fixer's output still has required with the same names.         *)
C20_RequiredKept ==
    (sch.pc \in {"fixed", "again"} /\ DeclaresRequired(sch.input))
        => /\ sch.fixed.t = "dict"
           /\ HasField(sch.fixed, "required")
           /\ Field(sch.fixed, "required") = Field(sch.input, "required")

(* C21: for an object schema whose anyOf, oneOf or allOf field is a list, the *)
(* fixed field is a list of the same length whose i-th item is the fixed i-th *)
(* input item, None where that item fixes to nothing; it is never shortened.  *)
C21_CombinatorListKept ==
    (sch.pc \in {"fixed", "again"} /\ sch.input.t = "dict")
        => \A n \in 1..Len(sch.input.d) :
               LET key == sch.input.d[n].k
                   value == sch.input.d[n].x
               IN (key \in Combinators /\ value.t = "list")
                      => /\ HasField(sch.fixed, key)
                         /\ Field(sch.fixed, key).t = "list"
                         /\ Len(Field(sch.fixed, key).l) = Len(value.l)
                         /\ \A i \in 1..Len(value.l) :
                                Field(sch.fixed, key).l[i] = FixSchemaForGemini(value.l[i])

\* an anyOf list of two items was fixed: the first is a list of primitives,
\* which fixes to nothing and is kept as None, the second is a dict
C21_Witness ==
    /\ sch.pc = "fixed"
    /\ sch.input.t = "dict"
    /\ HasField(sch.input, "anyOf")
    /\ Field(sch.input, "anyOf").t = "list"
    /\ Len(Field(sch.input, "anyOf").l) = 2
    /\ Field(sch.input, "anyOf").l[1] = List(<<Prim("a"), Prim("b")>>)
    /\ Field(sch.input, "anyOf").l[2].t = "dict"
    /\ Len(Field(sch.input, "anyOf").l[2].d) = 2
    /\ Field(sch.fixed, "anyOf") = List(<<None, Field(sch.input, "anyOf").l[2]>>)

(* C22: for an object schema and a tuple-validation field whose value is a    *)
(* list: when the list is empty or its first item is no dict the field is     *)
(* absent from the output, otherwise the field's output value is the fixed    *)
(* first item alone.                                                          *)
C22_TupleListCollapsed ==
    (sch.pc \in {"fixed", "again"} /\ sch.input.t = "dict")
        => \A n \in 1..Len(sch.input.d) :
               LET key == sch.input.d[n].k
                   value == sch.input.d[n].x
               IN (key \in TupleFields /\ value.t = "list")
                      => IF Len(value.l) > 0 /\ value.l[1].t = "dict"
                         THEN /\ HasField(sch.fixed, key)
                              /\ Field(sch.fixed, key) = FixSchemaForGemini(value.l[1])
                         ELSE ~HasField(sch.fixed, key)

\* an items list of two items with a dict first was collapsed to that dict, fixed
C22_Witness ==
    /\ sch.pc = "fixed"
    /\ sch.input.t = "dict"
    /\ HasField(sch.input, "items")
    /\ Field(sch.input, "items").t = "list"
    /\ Len(Field(sch.input, "items").l) = 2
    /\ Field(sch.input, "items").l[1].t = "dict"
    /\ Len(Field(sch.input, "items").l[1].d) > 0
    /\ Field(sch.input, "items").l[2] # Field(sch.input, "items").l[1]
    /\ HasField(sch.fixed, "items")
    /\ Field(sch.fixed, "items").t = "dict"

(* C23: for an object schema the output's fields are among the input's; a     *)
(* field is left out only when its fixed value is None and its input value    *)
(* was not None; every field whose input value is None is in the output with  *)
(* value None, whatever its name.                                             *)
C23_OnlyEmptyFieldsOmitted ==
    (sch.pc \in {"fixed", "again"} /\ sch.input.t = "dict")
        => /\ sch.fixed.t = "dict"
           /\ \A m \in 1..Len(sch.fixed.d) : HasField(sch.input, sch.fixed.d[m].k)
           /\ \A n \in 1..Len(sch.input.d) :
                  LET key == sch.input.d[n].k
                      value == sch.input.d[n].x
                  IN /\ ~HasField(sch.fixed, key)
                           => (FixSchemaForGemini(value) = None /\ value # None)
                     /\ value = None
                           => (HasField(sch.fixed, key) /\ Field(sch.fixed, key) = None)

\* a dict with a None field and a field that fixes to nothing was fixed: the
\* first is kept as None, the second is left out
C23_Witness ==
    /\ sch.pc = "fixed"
    /\ sch.input.t = "dict"
    /\ Len(sch.input.d) = 2
    /\ HasField(sch.input, "items")
    /\ Field(sch.input, "items") = None
    /\ HasField(sch.input, "required")
    /\ Field(sch.input, "required").t = "list"
    /\ sch.fixed = Dict(<<[k |-> "items", x |-> None]>>)

(* C26: every result execute_code returns has success true exactly when error *)
(* is None, and when success is false its variables are empty and its stdout  *)
(* and stderr are empty strings, wherever the error or the alarm occurred.    *)
C26_FailureResultIsEmpty ==
    (ex.pc = "returned" /\ ex.raised = "none")
        => /\ ex.result.success <=> (ex.result.error = NoneValue)
           /\ ~ex.result.success
                 => /\ ex.result.variables = <<>>
                    /\ ex.result.stdout = <<>>
                    /\ ex.result.stderr = <<>>

(* C27: at every suspension point and after every registry operation the     *)
(* public names with a recorded session are exactly the public names with a  *)
(* tool record, and no call fails to find the session of a name it found in  *)
(* the tools cache, whatever the interleaving of loaders and callers.         *)
C27_SessionForEveryTool ==
    /\ DOMAIN sessions_cache = {tools_cache[i].name : i \in 1..Len(tools_cache)}
    /\ \A t \in Tasks : ~(task[t].outcome.kind = "raise" /\ task[t].outcome.type = "KeyError")

\* two loaders stored the same provider's tools concurrently, the cache holds
\* the tools of both providers, and a call found its tool and sent its request
C27_Witness ==
    /\ opens[ProviderP] = 2
    /\ lists[ProviderP] = 2
    /\ Len(tools_cache) >= 2
    /\ InCache(tools_cache, PublicName(ProviderPA, RawAB))
    /\ \E t \in Tasks : Kind(t) = "call_tool" /\ Len(task[t].sent) > 0

(* C28: when a name and its hyphenated fallback variant are both loaded       *)
(* public names, get_tool_schema of the name returns the name's own record    *)
(* and tools.<name> sends exactly one callTool request, for the name's own    *)
(* tool; the variant is never invoked.                                        *)
C28_ExactMatchFirst ==
    \A t \in Tasks :
        LET n == task[t].op.name
        IN ( /\ Finished(t) /\ task[t].looked
             /\ Kind(t) \in {"get_tool_schema", "call_wrapper"}
             /\ HasFallback(n) /\ NameWithHyphens(n) # n
             /\ InCache(task[t].seen, n)
             /\ InCache(task[t].seen, NameWithHyphens(n)) )
           => /\ Kind(t) = "get_tool_schema"
                    => task[t].outcome = Return(SchemaOf(Lookup(task[t].seen, n)))
              /\ Kind(t) = "call_wrapper"
                    => /\ Len(task[t].sent) = 1
                       /\ task[t].sent[1].tool = n
                       /\ task[t].sent[1].name = Lookup(task[t].seen, n).raw_name

(* C29: a registration opens no session, lists no tools and leaves both       *)
(* caches as they are; and once the tools cache is non-empty and no load is   *)
(* under way, no step (a later registration, list_tools, get_tool_schema or   *)
(* a call) opens a session, lists tools or changes the public names.          *)
C29_NoLoadAfterFirst ==
    [][ /\ (mcp_toolsets' # mcp_toolsets)
              => UNCHANGED <<tools_cache, sessions_cache, opens, lists, task>>
        /\ (Len(tools_cache) > 0 /\ \A t \in Tasks : task[t].pc \notin {"open", "list"})
              => /\ DictKeys(tools_cache') = DictKeys(tools_cache)
                 /\ DOMAIN sessions_cache' = DOMAIN sessions_cache
                 /\ UNCHANGED <<opens, lists>> ]_vars

\* a provider was registered after the first load; a second operation then
\* completed from the cache and the late provider was never opened
C29_Witness ==
    /\ nops = 2 /\ \A t \in Tasks : task[t].pc \in {"idle", "done"}
    /\ \E t \in Tasks : task[t].hit /\ Finished(t)
    /\ Len(began) = 1 /\ Len(mcp_toolsets) = 2
    /\ Len(tools_cache) > 0
    /\ opens[mcp_toolsets[2]] = 0 /\ lists[mcp_toolsets[2]] = 0

(* C24: call_tool unwraps every provider response: one content item whose     *)
(* text parses as a JSON object with a "result" field gives that field's      *)
(* value; one content item otherwise gives its text unchanged; two or more    *)
(* content items give the sequence of their texts in order; no content gives  *)
(* the raw response. No response shape makes the call fail.                   *)
C24_UnwrapEveryShape ==
    \A t \in Tasks :
        ( /\ Finished(t) /\ Kind(t) \in {"call_tool", "call_wrapper"}
          /\ Len(task[t].resp) = 1 /\ task[t].resp[1].kind = "result" )
        => LET c == task[t].resp[1].content
               v == task[t].outcome.value
           IN /\ task[t].outcome.kind = "return"
              /\ Len(c) = 0 => (v[1] = "raw" /\ v[2] = task[t].resp[1])
              /\ Len(c) = 1 =>
                    LET parsed == JsonLoads(c[1].text)
                    IN IF parsed.valid /\ parsed.is_dict /\ parsed.hasResult
                       THEN v[1] = "parsed_result" /\ v[2] = parsed.result
                       ELSE v[1] = "text" /\ v[2] = c[1].text
              /\ Len(c) >= 2 =>
                    (v[1] = "texts" /\ v[2] = [i \in 1..Len(c) |-> c[i].text])

\* the position of provider p in registration order, and of raw name n in the
\* discovery order of p
RegistrationIndex(p) == CHOOSE i \in 1..Len(mcp_toolsets) : mcp_toolsets[i] = p
DiscoveryIndex(p, n) == CHOOSE i \in 1..Len(catalog[p]) : catalog[p][i] = n

(* C25: list_tools returns one entry per public name, carrying name and       *)
(* description only without include_schemas and name, description and         *)
(* parameters with it; the entries come in provider registration order and,   *)
(* within a provider, in discovery order.                                     *)
C25_ListToolsEntriesInOrder ==
    \A t \in Tasks :
        (Finished(t) /\ Kind(t) = "list_tools" /\ task[t].outcome.kind = "return")
        => LET entries == task[t].outcome.value[2]
               Owner(i) == entries[i][2][2]
               Raw(i) == entries[i][2][3]
           IN /\ Len(entries) = Len(task[t].seen)
              /\ \A i \in 1..Len(entries) :
                    /\ Len(entries[i]) = IF task[t].op.include_schemas THEN 3 ELSE 2
                    /\ entries[i][1] = task[t].seen[i].name
                    /\ entries[i][2] = task[t].seen[i].description
                    /\ task[t].op.include_schemas
                          => entries[i][3] = task[t].seen[i].inputSchema
              /\ \A i, j \in 1..Len(entries) :
                    i < j => /\ entries[i][1] # entries[j][1]
                             /\ RegistrationIndex(Owner(i)) <= RegistrationIndex(Owner(j))
                             /\ Owner(i) = Owner(j)
                                   => DiscoveryIndex(Owner(i), Raw(i))
                                          < DiscoveryIndex(Owner(i), Raw(j))

====
